---- MODULE Spec2Model ----
(***************************************************************************)
(* Declustering engines of nornir_urd: the Gardner-Knopoff core with its   *)
(* four entry points (decluster.py) and the Reasenberg engine              *)
(* (reasenberg.py), as one state machine.  A behaviour is one call: Init   *)
(* holds the arguments, one action per loop iteration, one for the return. *)
(*                                                                         *)
(* Units.  Magnitudes are tenths (70 = M7.0).  Latitudes and longitudes    *)
(* are hundredths of a degree.  Distances are metres, durations seconds;   *)
(* a real window w is kept as floor(w), which decides "dt > w" and         *)
(* "dt <= w" exactly for the whole-second dt of the catalogs drawn here.   *)
(***************************************************************************)
EXTENDS Integers, Sequences, FiniteSets, TLC

VARIABLES events, engine, args, pc, times, order, k,
          is_dependent, parent_idx, parent_dt_abs,
          sorted_evts, clusters, mainshocks, aftershocks, ret

vars == <<events, engine, args, pc, times, order, k,
          is_dependent, parent_idx, parent_dt_abs,
          sorted_evts, clusters, mainshocks, aftershocks, ret>>

(* ------------------------------ bounds --------------------------------- *)

\* longest catalog drawn in Init
MaxLen == 3

(* ----------------------------- constants ------------------------------- *)

\* seconds per day: "time_window * 86400.0"
SecPerDay == 86400

\* float("inf"), the initial parent_dt_abs
Inf == 2147483647

\* "parent_idx = [None] * n"
None == 0

Abs(x) == IF x < 0 THEN -x ELSE x

Max(a, b) == IF a >= b THEN a ELSE b

Min(a, b) == IF a <= b THEN a ELSE b

\* floor(a * b / c) for naturals, without leaving 32 bits
MulDiv(a, b, c) == (a \div c) * b + ((a % c) * b) \div c

(* ------------------------------ geodesy -------------------------------- *)

\* metres per hundredth of a degree of arc, times 1000:
\* EARTH_RADIUS_KM * pi / 180 = 111.19492664 km per degree
ArcMilliMetres == 1111949

\* haversine_km on one meridian (lon1 = lon2), where the haversine formula
\* reduces to R * |lat1 - lat2| in radians; result in metres.  The catalogs
\* drawn in Init keep every event on one meridian.
haversine_km(lat1, lon1, lat2, lon2) ==
    CASE lon1 = lon2 -> (Abs(lat1 - lat2) * ArcMilliMetres) \div 1000

(* ----------------------------- window models --------------------------- *)

\* 10 ** x, x given in 1e-5 units, result times 1000 (floor); tabulated from
\* the float power at the exponents the magnitudes 6.0, 6.8, 7.0 produce.
Pow10Milli(e5) ==
    CASE e5 = 172580 -> 53186      \* 0.1238*6.0 + 0.983
      [] e5 = 182484 -> 66809      \* 0.1238*6.8 + 0.983
      [] e5 = 184960 -> 70729      \* 0.1238*7.0 + 0.983
      [] e5 = 269840 -> 499344     \* 0.5409*6.0 - 0.547
      [] e5 = 295650 -> 904690     \* 0.032*6.8 + 2.7389
      [] e5 = 296290 -> 918121     \* 0.032*7.0 + 2.7389
      [] e5 = 68400  -> 4830       \* 0.11*6.0 + 0.024
      [] e5 = 77200  -> 5915       \* 0.11*6.8 + 0.024
      [] e5 = 79400  -> 6223       \* 0.11*7.0 + 0.024

\* gk_window: <<distance in metres, time in milli-days>>
gk_window(magnitude) ==
    LET distance == Pow10Milli(1238 * magnitude + 98300)
        time_days == IF magnitude >= 65
                     THEN Pow10Milli(320 * magnitude + 273890)
                     ELSE Pow10Milli(5409 * magnitude - 54700)
    IN  <<distance, time_days>>

\* _GK_TABLE rows: <<threshold, metres, milli-days>>, descending
_GK_TABLE ==
    << <<70, 70000, 985000>>, <<65, 61000, 960000>>, <<60, 54000, 915000>>,
       <<55, 47000, 790000>>, <<50, 40000, 510000>>, <<45, 35000, 290000>>,
       <<40, 30000, 155000>>, <<35, 26000, 83000>>,  <<30, 22500, 42000>>,
       <<25, 19500, 22000>> >>

RECURSIVE TableScan(_, _)
TableScan(magnitude, r) ==
    IF r > Len(_GK_TABLE) THEN <<19500, 22000>>
    ELSE IF magnitude >= _GK_TABLE[r][1]
         THEN <<_GK_TABLE[r][2], _GK_TABLE[r][3]>>
         ELSE TableScan(magnitude, r + 1)

\* mutant: "if magnitude > threshold", so a magnitude on a threshold takes
\* the row below
gk_window_table_strict(magnitude) ==
    LET above == {r \in 1..Len(_GK_TABLE) : magnitude > _GK_TABLE[r][1]}
        first == CHOOSE r \in above : \A q \in above : r <= q
    IN  IF above = {} THEN <<19500, 22000>>
        ELSE <<_GK_TABLE[first][2], _GK_TABLE[first][3]>>

gk_window_table(magnitude) == TableScan(magnitude, 1)

\* mutant: the windows are taken from the table, not from the formula
gk_window_scaled_table(magnitude, scale) ==
    LET w == gk_window_table(magnitude)
    IN  <<MulDiv(w[1], scale, 100), MulDiv(w[2], scale, 100)>>

\* gk_window_scaled: scale in hundredths (100 = 1.0)
gk_window_scaled(magnitude, scale) ==
    LET w == gk_window(magnitude)
    IN  <<MulDiv(w[1], scale, 100), MulDiv(w[2], scale, 100)>>

\* "lambda _mag: (radius_km, window_days)" of decluster_a1b_fixed
a1b_window(magnitude, radius_km, window_days) == <<radius_km, window_days>>

\* "time_window * 86400.0": milli-days to seconds
time_window_secs(time_window) == MulDiv(time_window, SecPerDay, 1000)

(* ------------------------------ event time ----------------------------- *)

\* UTC offset in seconds denoted by an ISO-8601 suffix
OffsetSecs(suffix) ==
    CASE suffix = "+00:00" -> 0
      [] suffix = "+09:00" -> 32400
      [] suffix = "-05:00" -> -18000

\* event_at.replace("Z", "+00:00")
ReplaceZ(suffix) == IF suffix = "Z" THEN "+00:00" ELSE suffix

\* _parse_event_time: event_at is <<wall-clock seconds, suffix>>; the
\* instant is the wall clock minus the offset
_parse_event_time(event_at) ==
    event_at.local - OffsetSecs(ReplaceZ(event_at.suffix))

(* ------------------------------ catalogs ------------------------------- *)

Mags == {60, 68, 70}

\* <<wall-clock seconds, suffix, latitude>> of the Gardner-Knopoff catalogs:
\* the instants 0, 600 d, 1000 d, 1200 d
PlacesGK ==
    { <<0, "Z", 3500>>,
      <<51872400, "+09:00", 3545>>,
      <<86400000, "Z", 3590>>,
      <<103662000, "-05:00", 3500>> }

\* the same for the Reasenberg catalogs: the instants 0, 6 h, 24 h, 28 h
\* (the last one reads 23:00 of the first day, five hours behind UTC); the
\* three latitudes lie 50 km, 61 km and 11 km apart
PlacesR ==
    { <<0, "Z", 3500>>,
      <<21600, "Z", 3545>>,
      <<86400, "Z", 3500>>,
      <<82800, "-05:00", 3555>> }

\* an input record without its identifier; depth is a pass-through attribute
Event(m, pl) ==
    [event_at |-> [local |-> pl[1], suffix |-> pl[2]],
     latitude |-> pl[3], longitude |-> 13900, usgs_mag |-> m,
     depth |-> m - 50]

Pool(places) == {Event(m, pl) : m \in Mags, pl \in places}

\* the identifier of the record at position i (unique within a catalog)
IdOf(i) == 100 + i

WithId(e, i) ==
    [usgs_id |-> IdOf(i), event_at |-> e.event_at, latitude |-> e.latitude,
     longitude |-> e.longitude, usgs_mag |-> e.usgs_mag, depth |-> e.depth]

\* the catalog made of the pool records c[1], ..., c[n]
Catalog(c) == [i \in DOMAIN c |-> WithId(c[i], i)]

CoreEngines ==
    {"decluster_gardner_knopoff", "decluster_gardner_knopoff_table",
     "decluster_a1b_fixed"}

DefaultArgs ==
    [radius_km |-> 83200, window_days |-> 95600, window_scale |-> 100,
     rfact |-> 10, tau_min |-> 86400, tau_max |-> 864000, p |-> 95,
     xmeff |-> 15]

\* the argument values drawn for each entry point (the first is the default)
ArgsOf(eng) ==
    CASE eng = "decluster_a1b_fixed" ->
           {DefaultArgs,
            [DefaultArgs EXCEPT !.radius_km = 60000, !.window_days = 600000]}
      [] eng = "decluster_with_parents" ->
           {[DefaultArgs EXCEPT !.window_scale = s] : s \in {100, 75, 125}}
      [] eng = "decluster_reasenberg" ->
           {DefaultArgs, [DefaultArgs EXCEPT !.xmeff = 65]}
      [] OTHER -> {DefaultArgs}

Engines == CoreEngines \cup {"decluster_with_parents", "decluster_reasenberg"}

N == Len(events)

\* mutant: the early return is missing
IsEmpty_never(evs) == FALSE

\* "if not events", the first test of every engine
IsEmpty(evs) == evs = <<>>

Init ==
    /\ engine \in Engines
    /\ args \in ArgsOf(engine)
    /\ \E n \in 0..MaxLen :
          \E c \in [1..n -> IF engine = "decluster_reasenberg"
                            THEN Pool(PlacesR) ELSE Pool(PlacesGK)] :
              events = Catalog(c)
    /\ pc = "call"
    /\ times = <<>>
    /\ order = <<>>
    /\ k = 0
    /\ is_dependent = <<>>
    /\ parent_idx = <<>>
    /\ parent_dt_abs = <<>>
    /\ sorted_evts = <<>>
    /\ clusters = <<>>
    /\ mainshocks = <<>>
    /\ aftershocks = <<>>
    /\ ret = None

(* ------------------------- Gardner-Knopoff core ------------------------ *)

\* mutant: equal magnitudes come out in reverse catalog order
MagBefore_unstable(evs, i, j) ==
    \/ evs[i].usgs_mag > evs[j].usgs_mag
    \/ evs[i].usgs_mag = evs[j].usgs_mag /\ i > j

\* mutant: the candidates are taken in catalog order, unsorted
MagBefore_catalogOrder(evs, i, j) == i < j

\* sorted(range(n), key=lambda i: evs[i]["usgs_mag"], reverse=True): the
\* sort is stable, so i comes before j when its magnitude is larger, or
\* equal with i earlier in the catalog
MagBefore(evs, i, j) ==
    \/ evs[i].usgs_mag > evs[j].usgs_mag
    \/ evs[i].usgs_mag = evs[j].usgs_mag /\ i < j

\* sorted(range(n), key=...): the index at rank r has r - 1 indices before
\* it; before is the set of pairs <<j, i>> with j ordered before i
SortedBy(n, before) ==
    [r \in 1..n |->
        CHOOSE i \in 1..n :
            Cardinality({j \in 1..n : <<j, i>> \in before}) = r - 1]

indices_by_mag(evs) ==
    SortedBy(Len(evs),
             {p \in (1..Len(evs)) \X (1..Len(evs)) : MagBefore(evs, p[1], p[2])})

ParseTimes(evs) == [i \in 1..Len(evs) |-> _parse_event_time(evs[i].event_at)]

\* the window function each core entry point hands to _gk_decluster_core,
\* applied to a magnitude: <<metres, milli-days>>
window_fn(eng, a, mag) ==
    CASE eng = "decluster_gardner_knopoff" -> gk_window(mag)
      [] eng = "decluster_gardner_knopoff_table" -> gk_window_table(mag)
      [] eng = "decluster_a1b_fixed" -> a1b_window(mag, a.radius_km, a.window_days)

\* mutant: the magnitude of j is not compared with the candidate's
InWindow_anyMagnitude(evs, tm, idx, j, win) ==
    /\ ~(Abs(tm[j] - tm[idx]) > time_window_secs(win[2]))
    /\ haversine_km(evs[idx].latitude, evs[idx].longitude,
                    evs[j].latitude, evs[j].longitude) <= win[1]

\* mutant: the distance is not tested
InWindow_timeOnly(evs, tm, idx, j, win) ==
    /\ ~(evs[j].usgs_mag > evs[idx].usgs_mag)
    /\ ~(Abs(tm[j] - tm[idx]) > time_window_secs(win[2]))

\* mutant: the time bound is exclusive
InWindow_exclusive(evs, tm, idx, j, win) ==
    /\ ~(evs[j].usgs_mag > evs[idx].usgs_mag)
    /\ ~(Abs(tm[j] - tm[idx]) >= time_window_secs(win[2]))
    /\ haversine_km(evs[idx].latitude, evs[idx].longitude,
                    evs[j].latitude, evs[j].longitude) <= win[1]

\* the three tests of the inner loop for candidate idx and event j
InWindow(evs, tm, idx, j, win) ==
    /\ ~(evs[j].usgs_mag > evs[idx].usgs_mag)
    /\ ~(Abs(tm[j] - tm[idx]) > time_window_secs(win[2]))
    /\ haversine_km(evs[idx].latitude, evs[idx].longitude,
                    evs[j].latitude, evs[j].longitude) <= win[1]

\* mutant: the flag of the preceding catalog position is tested
CandidateSkipped_wrongIndex(dep, idx) ==
    dep[IF idx > 1 THEN idx - 1 ELSE Len(dep)]

\* mutant: a dependent event still acts as a candidate
CandidateSkipped_never(dep, idx) == FALSE

\* "if is_dependent[idx]: continue" at the head of the outer loop
CandidateSkipped(dep, idx) == dep[idx]

\* mutant: the candidate is not excluded from its own scan
CoreSkips_self(idx, dep, j) == dep[j]

\* "if j == idx or is_dependent[j]: continue" of _gk_decluster_core
CoreSkips(idx, dep, j) == j = idx \/ dep[j]

\* the inner loop "for j in range(n)" of _gk_decluster_core, from j on
RECURSIVE CoreScan(_, _, _, _, _, _)
CoreScan(evs, tm, idx, win, dep, j) ==
    IF j > Len(evs) THEN dep
    ELSE IF CoreSkips(idx, dep, j) THEN CoreScan(evs, tm, idx, win, dep, j + 1)
    ELSE IF InWindow(evs, tm, idx, j, win)
         THEN CoreScan(evs, tm, idx, win, [dep EXCEPT ![j] = TRUE], j + 1)
         ELSE CoreScan(evs, tm, idx, win, dep, j + 1)

\* "[e for i, e in enumerate(events) if not is_dependent[i]]"
RECURSIVE Keep(_, _, _, _)
Keep(evs, dep, want, i) ==
    IF i > Len(evs) THEN <<>>
    ELSE IF dep[i] = want THEN <<evs[i]>> \o Keep(evs, dep, want, i + 1)
    ELSE Keep(evs, dep, want, i + 1)

\* mutant: the list is built in the order of the outer loop (descending
\* magnitude), not in catalog order
MainshocksOf_inLoopOrder(evs, dep) ==
    LET ord == indices_by_mag(evs)
    IN  Keep([r \in 1..Len(evs) |-> evs[ord[r]]],
             [r \in 1..Len(evs) |-> dep[ord[r]]], FALSE, 1)

\* mutant: the comprehension starts one record late
MainshocksOf_skipFirst(evs, dep) == Keep(evs, dep, FALSE, 2)

MainshocksOf(evs, dep) == Keep(evs, dep, FALSE, 1)

\* mutant: the comprehension stops one record early
AftershocksOf_dropLast(evs, dep) == Keep(SubSeq(evs, 1, Len(evs) - 1), dep, TRUE, 1)

AftershocksOf(evs, dep) == Keep(evs, dep, TRUE, 1)

\* "if not events: return [], []" of _gk_decluster_core
CoreEmpty ==
    /\ pc = "call" /\ engine \in CoreEngines /\ IsEmpty(events)
    /\ mainshocks' = <<>> /\ aftershocks' = <<>>
    /\ pc' = "done"
    /\ UNCHANGED <<ret, events, engine, args, times, order, k, is_dependent,
                   parent_idx, parent_dt_abs, sorted_evts, clusters>>

\* lines 119-122: times, the magnitude order, the cleared flags
CoreBegin ==
    /\ pc = "call" /\ engine \in CoreEngines /\ ~IsEmpty(events)
    /\ times' = ParseTimes(events)
    /\ order' = indices_by_mag(events)
    /\ is_dependent' = [i \in 1..N |-> FALSE]
    /\ k' = 1
    /\ pc' = "scan"
    /\ UNCHANGED <<ret, events, engine, args, parent_idx, parent_dt_abs,
                   sorted_evts, clusters, mainshocks, aftershocks>>

\* one iteration of "for idx in indices_by_mag"
CorePass ==
    /\ pc = "scan" /\ engine \in CoreEngines /\ k <= N
    /\ LET idx == order[k]
           win == window_fn(engine, args, events[idx].usgs_mag)
       IN  is_dependent' =
               IF CandidateSkipped(is_dependent, idx) THEN is_dependent
               ELSE CoreScan(events, times, idx, win, is_dependent, 1)
    /\ k' = k + 1
    /\ UNCHANGED <<ret, events, engine, args, pc, times, order, parent_idx,
                   parent_dt_abs, sorted_evts, clusters, mainshocks,
                   aftershocks>>

\* lines 149-151
CoreReturn ==
    /\ pc = "scan" /\ engine \in CoreEngines /\ k > N
    /\ mainshocks' = MainshocksOf(events, is_dependent)
    /\ aftershocks' = AftershocksOf(events, is_dependent)
    /\ pc' = "done"
    /\ UNCHANGED <<ret, events, engine, args, times, order, k, is_dependent,
                   parent_idx, parent_dt_abs, sorted_evts, clusters>>

\* decluster_gardner_knopoff as a function of the catalog: the outer loop
\* of _gk_decluster_core under gk_window from rank r on, the flags so far
\* in dep
RECURSIVE CorePasses(_, _, _, _, _)
CorePasses(evs, tm, ord, dep, r) ==
    IF r > Len(evs) THEN dep
    ELSE LET idx == ord[r]
         IN  CorePasses(evs, tm, ord,
                 IF CandidateSkipped(dep, idx) THEN dep
                 ELSE CoreScan(evs, tm, idx, gk_window(evs[idx].usgs_mag),
                               dep, 1),
                 r + 1)

\* decluster_gardner_knopoff(events): <<mainshocks, aftershocks>>
decluster_gardner_knopoff(evs) ==
    IF IsEmpty(evs) THEN << <<>>, <<>> >>
    ELSE LET dep == CorePasses(evs, ParseTimes(evs), indices_by_mag(evs),
                               [i \in 1..Len(evs) |-> FALSE], 1)
         IN  <<MainshocksOf(evs, dep), AftershocksOf(evs, dep)>>

(* ---------------------- decluster_with_parents ------------------------- *)

\* mutant: the first parent is kept
Reassigns_never(dt_abs, prev_dt_abs) == FALSE

\* mutant: a candidate at the same |dt| takes the event over
Reassigns_onTie(dt_abs, prev_dt_abs) == dt_abs <= prev_dt_abs

\* "elif dt_abs < parent_dt_abs[j]": j moves to the candidate
Reassigns(dt_abs, prev_dt_abs) == dt_abs < prev_dt_abs

\* mutant: the candidate is examined against itself
ParentSkips_none(idx, j) == FALSE

\* "if j == idx: continue" of decluster_with_parents
ParentSkips(idx, j) == j = idx

\* the inner loop "for j in range(n)" of decluster_with_parents, from j on;
\* st holds is_dependent, parent_idx and parent_dt_abs
RECURSIVE ParentScan(_, _, _, _, _, _)
ParentScan(evs, tm, idx, win, st, j) ==
    IF j > Len(evs) THEN st
    ELSE IF ParentSkips(idx, j) \/ ~InWindow(evs, tm, idx, j, win)
         THEN ParentScan(evs, tm, idx, win, st, j + 1)
    ELSE LET dt_abs == Abs(tm[j] - tm[idx])
         IN  IF ~st.dep[j]
             THEN ParentScan(evs, tm, idx, win,
                      [dep |-> [st.dep EXCEPT ![j] = TRUE],
                       par |-> [st.par EXCEPT ![j] = idx],
                       dt  |-> [st.dt EXCEPT ![j] = dt_abs]], j + 1)
             ELSE IF Reassigns(dt_abs, st.dt[j])
             THEN ParentScan(evs, tm, idx, win,
                      [dep |-> st.dep,
                       par |-> [st.par EXCEPT ![j] = idx],
                       dt  |-> [st.dt EXCEPT ![j] = dt_abs]], j + 1)
             ELSE ParentScan(evs, tm, idx, win, st, j + 1)

\* mutant: the elapsed time loses its sign
after_event_unsigned(evs, tm, par, i) ==
    LET e == evs[i]
        parent == evs[par[i]]
    IN  [parent_id |-> parent.usgs_id,
         parent_magnitude |-> parent.usgs_mag,
         delta_t_sec |-> Abs(tm[i] - tm[par[i]]),
         delta_dist_km |-> haversine_km(parent.latitude, parent.longitude,
                                        e.latitude, e.longitude)] @@ e

\* mutant: the distance column is not written
after_event_noDist(evs, tm, par, i) ==
    LET e == evs[i]
        parent == evs[par[i]]
    IN  [parent_id |-> parent.usgs_id,
         parent_magnitude |-> parent.usgs_mag,
         delta_t_sec |-> tm[i] - tm[par[i]]] @@ e

\* lines 299-310: the aftershock record built for position i, dict(e) with
\* the four keys set
after_event(evs, tm, par, i) ==
    LET e == evs[i]
        parent == evs[par[i]]
    IN  [parent_id |-> parent.usgs_id,
         parent_magnitude |-> parent.usgs_mag,
         delta_t_sec |-> tm[i] - tm[par[i]],
         delta_dist_km |-> haversine_km(parent.latitude, parent.longitude,
                                        e.latitude, e.longitude)] @@ e

\* mutant: "after_event = e", so the four keys are written into the
\* caller's record
input_after_aliased(evs, tm, par, i) == after_event(evs, tm, par, i)

\* the caller's record at position i once its aftershock record is built:
\* "after_event = dict(e)" is a copy, so e itself is not written
input_after(evs, tm, par, i) == evs[i]

\* lines 295-311: the aftershocks list, from position i on
RECURSIVE AttributedFrom(_, _, _, _, _)
AttributedFrom(evs, tm, dep, par, i) ==
    IF i > Len(evs) THEN <<>>
    ELSE IF ~dep[i] THEN AttributedFrom(evs, tm, dep, par, i + 1)
    ELSE <<after_event(evs, tm, par, i)>>
             \o AttributedFrom(evs, tm, dep, par, i + 1)

\* _gk_decluster_core as a function of the catalog and the entry point
\* that supplies the window: the outer loop from rank r on, the flags so
\* far in dep
RECURSIVE CorePassesUnder(_, _, _, _, _, _, _)
CorePassesUnder(eng, a, evs, tm, ord, dep, r) ==
    IF r > Len(evs) THEN dep
    ELSE LET idx == ord[r]
         IN  CorePassesUnder(eng, a, evs, tm, ord,
                 IF CandidateSkipped(dep, idx) THEN dep
                 ELSE CoreScan(evs, tm, idx,
                               window_fn(eng, a, evs[idx].usgs_mag), dep, 1),
                 r + 1)

\* _gk_decluster_core(events, window_fn): <<mainshocks, aftershocks>>
_gk_decluster_core(evs, eng, a) ==
    IF IsEmpty(evs) THEN << <<>>, <<>> >>
    ELSE LET dep == CorePassesUnder(eng, a, evs, ParseTimes(evs),
                                    indices_by_mag(evs),
                                    [i \in 1..Len(evs) |-> FALSE], 1)
         IN  <<MainshocksOf(evs, dep), AftershocksOf(evs, dep)>>

\* the outer loop of decluster_with_parents from rank r on, as a function
RECURSIVE ParentPasses(_, _, _, _, _, _)
ParentPasses(evs, tm, ord, window_scale, st, r) ==
    IF r > Len(evs) THEN st
    ELSE LET idx == ord[r]
         IN  ParentPasses(evs, tm, ord, window_scale,
                 IF CandidateSkipped(st.dep, idx) THEN st
                 ELSE ParentScan(evs, tm, idx,
                          gk_window_scaled(evs[idx].usgs_mag, window_scale),
                          st, 1),
                 r + 1)

\* decluster_with_parents(events, window_scale): <<mainshocks, aftershocks>>
decluster_with_parents(evs, window_scale) ==
    IF IsEmpty(evs) THEN << <<>>, <<>> >>
    ELSE LET tm == ParseTimes(evs)
             st == ParentPasses(evs, tm, indices_by_mag(evs), window_scale,
                       [dep |-> [i \in 1..Len(evs) |-> FALSE],
                        par |-> [i \in 1..Len(evs) |-> None],
                        dt  |-> [i \in 1..Len(evs) |-> Inf]], 1)
         IN  <<MainshocksOf(evs, st.dep),
               AttributedFrom(evs, tm, st.dep, st.par, 1)>>

\* "if not events: return [], []" of decluster_with_parents
ParentsEmpty ==
    /\ pc = "call" /\ engine = "decluster_with_parents" /\ IsEmpty(events)
    /\ mainshocks' = <<>> /\ aftershocks' = <<>>
    /\ pc' = "done"
    /\ UNCHANGED <<ret, events, engine, args, times, order, k, is_dependent,
                   parent_idx, parent_dt_abs, sorted_evts, clusters>>

\* lines 252-258
ParentsBegin ==
    /\ pc = "call" /\ engine = "decluster_with_parents" /\ ~IsEmpty(events)
    /\ times' = ParseTimes(events)
    /\ order' = indices_by_mag(events)
    /\ is_dependent' = [i \in 1..N |-> FALSE]
    /\ parent_idx' = [i \in 1..N |-> None]
    /\ parent_dt_abs' = [i \in 1..N |-> Inf]
    /\ k' = 1
    /\ pc' = "scan"
    /\ UNCHANGED <<ret, events, engine, args, sorted_evts, clusters, mainshocks,
                   aftershocks>>

\* one iteration of "for idx in indices_by_mag" (lines 260-292)
ParentsPass ==
    /\ pc = "scan" /\ engine = "decluster_with_parents" /\ k <= N
    /\ LET idx == order[k]
           win == gk_window_scaled(events[idx].usgs_mag, args.window_scale)
           st  == [dep |-> is_dependent, par |-> parent_idx,
                   dt |-> parent_dt_abs]
           out == IF CandidateSkipped(is_dependent, idx) THEN st
                  ELSE ParentScan(events, times, idx, win, st, 1)
       IN  /\ is_dependent' = out.dep
           /\ parent_idx' = out.par
           /\ parent_dt_abs' = out.dt
    /\ k' = k + 1
    /\ UNCHANGED <<ret, events, engine, args, pc, times, order, sorted_evts,
                   clusters, mainshocks, aftershocks>>

\* lines 294-313
ParentsReturn ==
    /\ pc = "scan" /\ engine = "decluster_with_parents" /\ k > N
    /\ mainshocks' = MainshocksOf(events, is_dependent)
    /\ aftershocks' = AttributedFrom(events, times, is_dependent, parent_idx, 1)
    /\ events' = [i \in 1..N |->
                      IF is_dependent[i]
                      THEN input_after(events, times, parent_idx, i)
                      ELSE events[i]]
    /\ pc' = "done"
    /\ UNCHANGED <<ret, engine, args, times, order, k, is_dependent,
                   parent_idx, parent_dt_abs, sorted_evts, clusters>>

(* --------------------------- Reasenberg -------------------------------- *)

\* rank of an ISO-8601 suffix in Python's string order ('+' < '-' < 'Z')
SuffixRank(suffix) ==
    CASE suffix = "+00:00" -> 1
      [] suffix = "+09:00" -> 2
      [] suffix = "-05:00" -> 3
      [] suffix = "Z" -> 4

\* a < b for two event_at strings whose wall-clock parts have one width:
\* the wall clock decides, then the suffix
StrLess(a, b) ==
    \/ a.local < b.local
    \/ a.local = b.local /\ SuffixRank(a.suffix) < SuffixRank(b.suffix)

\* sorted(range(len(events)), key=lambda i: events[i]["event_at"]): i comes
\* before j when its string is smaller, or equal with i earlier
AtBefore(evs, i, j) ==
    \/ StrLess(evs[i].event_at, evs[j].event_at)
    \/ evs[i].event_at = evs[j].event_at /\ i < j

order_by_event_at(evs) ==
    SortedBy(Len(evs),
             {p \in (1..Len(evs)) \X (1..Len(evs)) : AtBefore(evs, p[1], p[2])})

\* _r_int, in metres
_r_int(mmax, rfact) == rfact * Pow10Milli(1100 * mmax + 2400)

\* -ln(1 - p) days, in seconds (floor); p in hundredths
NegLogSecs(p) ==
    CASE p = 0 -> 0
      [] p = 95 -> 258831

\* the largest exponent x (1e-5 units) at which the float 10.0 ** x is
\* finite: above it the power raises OverflowError
MaxExp10 == 30825471

\* the smallest exponent x (1e-5 units) at which the float 10.0 ** x is
\* not 0.0
MinExp10 == -32360724

\* from this exponent on, -ln(1 - p) / 10.0 ** x is below one second for
\* every p drawn; at or below its negative it is above Inf seconds or zero
FarExp10 == 700000

\* "if exponent > 300"
OverflowGuard(exponent) == exponent > 30000000

\* "-math.log(1.0 - p) / lam" in seconds (floor), lam = 10.0 ** exponent
\* not zero; between the far exponents it is tabulated from the float
\* quotient at the exponents the magnitudes and thresholds drawn produce
TauSecs(p, exponent) ==
    CASE exponent >= FarExp10 -> 0
      [] exponent <= -FarExp10 -> IF NegLogSecs(p) = 0 THEN 0 ELSE Inf
      [] p = 0 -> 0
      [] p = 95 /\ exponent = -50000 -> 818496   \* 6.0 - 6.5
      [] p = 95 /\ exponent = 30000 -> 129722    \* 6.8 - 6.5
      [] p = 95 /\ exponent = 50000 -> 81849     \* 7.0 - 6.5
      [] p = 95 /\ exponent = 450000 -> 8        \* 6.0 - 1.5
      [] p = 95 /\ exponent = 530000 -> 1        \* 6.8 - 1.5
      [] p = 95 /\ exponent = 550000 -> 0        \* 7.0 - 1.5

\* how a call ends: with a value, or with an exception
Returned(v) == [value |-> v]

Raised(e) == [raised |-> e]

\* _tau, in seconds; xmeff in tenths, tau_min and tau_max in seconds.
\* "10.0 ** exponent" raises above MaxExp10 and is 0.0 below MinExp10,
\* where the division raises.
_tau(mmax, xmeff, p, tau_min, tau_max) ==
    LET exponent == 10000 * (mmax - xmeff)
    IN  IF OverflowGuard(exponent) THEN Returned(tau_min)
        ELSE IF exponent > MaxExp10 THEN Raised("OverflowError")
        ELSE IF exponent < MinExp10 THEN Raised("ZeroDivisionError")
        ELSE Returned(Max(tau_min, Min(tau_max, TauSecs(p, exponent))))

\* mutant: no cluster is ever closed
Closed_never(dt, tau) == FALSE

\* mutant: a cluster closes as soon as the elapsed time reaches tau
Closed_atTau(dt, tau) == dt >= tau

\* "if dt_days > _tau(...): continue  # cluster is closed"
Closed(dt, tau) == dt > tau

\* "if dist > _r_int(mmax_c, rfact): continue"
OutOfReach(dist, r) == dist > r

\* mutant: the first eligible cluster wins
Nearer_first(dt, best_dt) == best_dt = Inf

\* "if dt_days < best_dt"
Nearer(dt, best_dt) == dt < best_dt

\* mutant: the distance is taken to the cluster's last member
reference_si_last(c) == c.last_si

\* "sorted_evts[main_si]": the member the distance is taken to
reference_si(c) == c.main_si

\* the loop over clusters (lines 118-131), from cluster ci on; best is
\* <<best_ci, best_dt>>
RECURSIVE BestCluster(_, _, _, _, _, _, _)
BestCluster(evs, tm, cl, a, i, best, ci) ==
    IF ci > Len(cl) THEN best
    ELSE LET c == cl[ci]
             dt == tm[i] - tm[c.last_si]
             dist == haversine_km(evs[i].latitude, evs[i].longitude,
                                  evs[reference_si(c)].latitude,
                                  evs[reference_si(c)].longitude)
         IN  IF Closed(dt, _tau(c.mmax, a.xmeff, a.p, a.tau_min,
                                a.tau_max).value)
             THEN BestCluster(evs, tm, cl, a, i, best, ci + 1)
             ELSE IF OutOfReach(dist, _r_int(c.mmax, a.rfact))
             THEN BestCluster(evs, tm, cl, a, i, best, ci + 1)
             ELSE IF Nearer(dt, best[2])
             THEN BestCluster(evs, tm, cl, a, i, <<ci, dt>>, ci + 1)
             ELSE BestCluster(evs, tm, cl, a, i, best, ci + 1)

\* mutant: the first member stays the mainshock candidate
NewMaximum_never(m_i, mmax) == FALSE

\* mutant: a member that ties with the maximum becomes the candidate
NewMaximum_orEqual(m_i, mmax) == m_i >= mmax

\* "if m_i > c[0]": a new magnitude maximum
NewMaximum(m_i, mmax) == m_i > mmax

\* mutant: a new maximum restarts the cluster from itself
Admit_reset(evs, cl, i, best_ci) ==
    IF best_ci # None
    THEN LET c == cl[best_ci]
             grown == IF NewMaximum(evs[i].usgs_mag, c.mmax)
                      THEN [mmax |-> evs[i].usgs_mag, main_si |-> i,
                            last_si |-> i, members |-> {i}]
                      ELSE [c EXCEPT !.last_si = i,
                                     !.members = c.members \cup {i}]
         IN  [cl EXCEPT ![best_ci] = grown]
    ELSE Append(cl, [mmax |-> evs[i].usgs_mag, main_si |-> i, last_si |-> i,
                     members |-> {i}])

\* lines 133-141: event i joins cluster best_ci or starts its own
Admit(evs, cl, i, best_ci) ==
    IF best_ci # None
    THEN LET c == cl[best_ci]
             grown == IF NewMaximum(evs[i].usgs_mag, c.mmax)
                      THEN [mmax |-> evs[i].usgs_mag, main_si |-> i,
                            last_si |-> i, members |-> c.members \cup {i}]
                      ELSE [c EXCEPT !.last_si = i,
                                     !.members = c.members \cup {i}]
         IN  [cl EXCEPT ![best_ci] = grown]
    ELSE Append(cl, [mmax |-> evs[i].usgs_mag, main_si |-> i, last_si |-> i,
                     members |-> {i}])

\* lines 145-151: the flags from the final clusters
Classify(n, cl) ==
    [si \in 1..n |->
        \E ci \in 1..Len(cl) :
            /\ Cardinality(cl[ci].members) # 1
            /\ si \in cl[ci].members
            /\ si # cl[ci].main_si]

\* "if not events: return [], []" of decluster_reasenberg
ReasenbergEmpty ==
    /\ pc = "call" /\ engine = "decluster_reasenberg" /\ IsEmpty(events)
    /\ mainshocks' = <<>> /\ aftershocks' = <<>>
    /\ pc' = "done"
    /\ UNCHANGED <<ret, events, engine, args, times, order, k, is_dependent,
                   parent_idx, parent_dt_abs, sorted_evts, clusters>>

\* lines 99-107
ReasenbergBegin ==
    /\ pc = "call" /\ engine = "decluster_reasenberg" /\ ~IsEmpty(events)
    /\ order' = order_by_event_at(events)
    /\ sorted_evts' = [i \in 1..N |-> events[order'[i]]]
    /\ times' = ParseTimes(sorted_evts')
    /\ clusters' = <<>>
    /\ k' = 1
    /\ pc' = "scan"
    /\ UNCHANGED <<ret, events, engine, args, is_dependent, parent_idx,
                   parent_dt_abs, mainshocks, aftershocks>>

\* one iteration of "for i in range(n)" (lines 109-141)
ReasenbergStep ==
    /\ pc = "scan" /\ engine = "decluster_reasenberg" /\ k <= N
    /\ LET best == BestCluster(sorted_evts, times, clusters, args, k,
                               <<None, Inf>>, 1)
       IN  clusters' = Admit(sorted_evts, clusters, k, best[1])
    /\ k' = k + 1
    /\ UNCHANGED <<ret, events, engine, args, pc, times, order, is_dependent,
                   parent_idx, parent_dt_abs, sorted_evts, mainshocks,
                   aftershocks>>

\* lines 145-155
ReasenbergReturn ==
    /\ pc = "scan" /\ engine = "decluster_reasenberg" /\ k > N
    /\ is_dependent' = Classify(N, clusters)
    /\ mainshocks' = MainshocksOf(sorted_evts, is_dependent')
    /\ aftershocks' = AftershocksOf(sorted_evts, is_dependent')
    /\ pc' = "done"
    /\ UNCHANGED <<ret, events, engine, args, times, order, k, parent_idx,
                   parent_dt_abs, sorted_evts, clusters>>

(* --------------------------- specification ----------------------------- *)

Next ==
    \/ CoreEmpty \/ CoreBegin \/ CorePass \/ CoreReturn
    \/ ParentsEmpty \/ ParentsBegin \/ ParentsPass \/ ParentsReturn
    \/ ReasenbergEmpty \/ ReasenbergBegin \/ ReasenbergStep
    \/ ReasenbergReturn

Spec == Init /\ [][Next]_vars

(* ----------------------- the two window functions ---------------------- *)

\* largest magnitude (tenths) handed to gk_window_table
MaxMag == 80

\* the arguments drawn for _tau: magnitudes of the catalogs and two far
\* above them, thresholds of the catalogs and one far above them
TauArgs ==
    [mmax : Mags \cup {3015, 3100}, xmeff : {15, 65, 4000}, p : {0, 95},
     tau_min : {0, 86400}, tau_max : {86400, 864000}]

\* a call of _tau or of gk_window_table with its arguments
FnInit ==
    /\ \/ engine = "_tau" /\ args \in TauArgs
       \/ engine = "gk_window_table" /\ args \in [magnitude : 0..MaxMag]
    /\ pc = "call"
    /\ ret = None
    /\ events = <<>> /\ times = <<>> /\ order = <<>> /\ k = 0
    /\ is_dependent = <<>> /\ parent_idx = <<>> /\ parent_dt_abs = <<>>
    /\ sorted_evts = <<>> /\ clusters = <<>>
    /\ mainshocks = <<>> /\ aftershocks = <<>>

\* _tau returns or raises
TauCall ==
    /\ pc = "call" /\ engine = "_tau"
    /\ ret' = _tau(args.mmax, args.xmeff, args.p, args.tau_min, args.tau_max)
    /\ pc' = "done"
    /\ UNCHANGED <<events, engine, args, times, order, k, is_dependent,
                   parent_idx, parent_dt_abs, sorted_evts, clusters,
                   mainshocks, aftershocks>>

\* gk_window_table returns
TableCall ==
    /\ pc = "call" /\ engine = "gk_window_table"
    /\ ret' = Returned(gk_window_table(args.magnitude))
    /\ pc' = "done"
    /\ UNCHANGED <<events, engine, args, times, order, k, is_dependent,
                   parent_idx, parent_dt_abs, sorted_evts, clusters,
                   mainshocks, aftershocks>>

FnNext == TauCall \/ TableCall

SpecFn == FnInit /\ [][FnNext]_vars

(* ------------------------------ claims --------------------------------- *)

GKEngines == CoreEngines \cup {"decluster_with_parents"}

Done == pc = "done"

\* how often the identifier id occurs in a returned list
Count(list, id) == Cardinality({i \in 1..Len(list) : list[i].usgs_id = id})

\* the two returned lists hold every input record exactly once
Partitioned ==
    /\ Len(mainshocks) + Len(aftershocks) = N
    /\ \A i \in 1..N :
           Count(mainshocks, events[i].usgs_id)
               + Count(aftershocks, events[i].usgs_id) = 1

\* C1: every Gardner-Knopoff entry point returns two lists that partition
\* the catalog: the lengths add up to the catalog's and every input
\* identifier occurs exactly once across both lists.
C1_GKPartition == (Done /\ engine \in GKEngines) => Partitioned

\* a three-event Gardner-Knopoff run that returned both classes
C1_Witness ==
    /\ Done /\ engine \in GKEngines /\ N = 3
    /\ Len(mainshocks) = 2 /\ Len(aftershocks) = 1

C3_EmptyCatalog ==
    [][(pc = "call" /\ events = <<>>) =>
          /\ pc' = "done"
          /\ mainshocks' = <<>> /\ aftershocks' = <<>>
          /\ UNCHANGED <<ret, events, engine, args, times, order, k, is_dependent,
                         parent_idx, parent_dt_abs, sorted_evts, clusters>>]_vars

\* an engine has returned from an empty catalog
C3_Witness ==
    /\ Done /\ events = <<>> /\ engine = "decluster_reasenberg"
    /\ mainshocks = <<>> /\ aftershocks = <<>>

\* C4: a catalog of one event yields that event as the only Mainshock and no
\* Aftershock, for every engine and every argument value drawn.
C4_SingleEvent ==
    (Done /\ N = 1) => (mainshocks = events /\ aftershocks = <<>>)

\* a one-event run of the fixed-window entry point has returned
C4_Witness ==
    /\ Done /\ N = 1 /\ engine = "decluster_a1b_fixed"
    /\ Len(mainshocks) = 1

\* the window of candidate i under the running entry point:
\* <<radius in metres, time in seconds>>
WindowOf(i) ==
    LET w == IF engine = "decluster_with_parents"
             THEN gk_window_scaled(events[i].usgs_mag, args.window_scale)
             ELSE window_fn(engine, args, events[i].usgs_mag)
    IN  <<w[1], time_window_secs(w[2])>>

Dist(i, j) ==
    haversine_km(events[i].latitude, events[i].longitude,
                 events[j].latitude, events[j].longitude)

AbsDt(i, j) == Abs(times[j] - times[i])

\* j lies inside the space-time window of i (both bounds inclusive)
Covers(i, j) ==
    /\ AbsDt(i, j) <= WindowOf(i)[2]
    /\ Dist(i, j) <= WindowOf(i)[1]

\* a Gardner-Knopoff pass of the outer loop whose candidate is not dependent
LivePass ==
    /\ engine \in GKEngines /\ pc = "scan" /\ k <= N
    /\ ~is_dependent[order[k]]

\* C5: in the core, after the pass of a candidate i that is not dependent,
\* the dependent events are those that were dependent before plus every
\* other event j with magnitude(j) <= magnitude(i) that lies inside the
\* window of i (both bounds inclusive, before or after i); nothing else is
\* newly marked.
C5_PassMarksWindow ==
    [][(engine \in CoreEngines /\ LivePass) =>
          \A j \in 1..N :
              is_dependent'[j] <=>
                  \/ is_dependent[j]
                  \/ /\ j # order[k]
                     /\ events[j].usgs_mag <= events[order[k]].usgs_mag
                     /\ Covers(order[k], j)]_vars

\* after a core pass: an event before the candidate in time and one after
\* it are both marked, one of them exactly on the time bound
C5_Witness ==
    /\ pc = "scan" /\ engine = "decluster_a1b_fixed" /\ k = 2 /\ N = 3
    /\ \E j1, j2 \in 1..N :
          /\ is_dependent[j1] /\ is_dependent[j2]
          /\ times[j1] < times[order[1]] /\ times[j2] > times[order[1]]
          /\ AbsDt(order[1], j1) = WindowOf(order[1])[2]

\* the outer loop's order: descending magnitude, equal magnitudes in
\* catalog order
StableDescending ==
    /\ {order[r] : r \in 1..N} = 1..N
    /\ \A r, q \in 1..N :
          r < q =>
              \/ events[order[r]].usgs_mag > events[order[q]].usgs_mag
              \/ /\ events[order[r]].usgs_mag = events[order[q]].usgs_mag
                 /\ order[r] < order[q]

\* G is a group of two or more events of one magnitude, each inside the
\* window of every other
EqualGroup(G) ==
    /\ Cardinality(G) >= 2
    /\ \A i, j \in G :
          /\ events[i].usgs_mag = events[j].usgs_mag
          /\ i # j => Covers(i, j)

First(G) == CHOOSE i \in G : \A j \in G : i <= j

MainshocksIn(G) == {i \in G : ~is_dependent[i]}

\* no event outside G of magnitude >= the group's has the group's earliest
\* member inside its window
Uncovered(G) ==
    \A c \in (1..N) \ G :
        ~(events[c].usgs_mag >= events[First(G)].usgs_mag
            /\ Covers(c, First(G)))

\* C6 as stated: the order is stable descending and, in every mutually
\* proximate group of equal magnitude, exactly one member ends up a
\* Mainshock, the earliest in the catalog.
C6_Original ==
    (Done /\ engine \in GKEngines /\ N > 0) =>
        /\ StableDescending
        /\ \A G \in SUBSET (1..N) :
              EqualGroup(G) => MainshocksIn(G) = {First(G)}

\* C6 (amended): the order is stable descending; in every mutually
\* proximate group of equal magnitude at most one member ends up a
\* Mainshock; and when no event outside the group of greater or equal
\* magnitude has the group's earliest member inside its window, that
\* earliest member is the Mainshock and all the others are dependent.
C6_TieBreak ==
    (Done /\ engine \in GKEngines /\ N > 0) =>
        /\ StableDescending
        /\ \A G \in SUBSET (1..N) :
              EqualGroup(G) =>
                  /\ Cardinality(MainshocksIn(G)) <= 1
                  /\ Uncovered(G) => MainshocksIn(G) = {First(G)}

\* a run with an uncovered equal-magnitude group that is not the head of the
\* catalog, won by its earliest member
C6_Witness ==
    /\ Done /\ engine \in GKEngines /\ N = 3
    /\ EqualGroup({2, 3}) /\ Uncovered({2, 3})
    /\ events[1].usgs_mag > events[2].usgs_mag
    /\ MainshocksIn({2, 3}) = {2}

WithParents == engine = "decluster_with_parents"

\* C7: every Aftershock of decluster_with_parents names as parent_id the
\* identifier of a record of the returned Mainshocks list, and its
\* parent_magnitude is that record's magnitude.
C7_ParentIsMainshock ==
    (Done /\ WithParents) =>
        \A a \in 1..Len(aftershocks) :
            \E m \in 1..Len(mainshocks) :
                /\ mainshocks[m].usgs_id = aftershocks[a].parent_id
                /\ mainshocks[m].usgs_mag = aftershocks[a].parent_magnitude

\* a run with two Mainshocks whose Aftershock belongs to the smaller one
C7_Witness ==
    /\ Done /\ WithParents /\ Len(aftershocks) = 1 /\ Len(mainshocks) = 2
    /\ aftershocks[1].parent_id = events[order[2]].usgs_id
    /\ aftershocks[1].parent_magnitude < events[order[1]].usgs_mag

\* the position of the record with identifier id
IndexOf(id) == CHOOSE i \in 1..N : events[i].usgs_id = id

\* the position of the parent returned for the dependent event j
ParentOf(j) ==
    IndexOf((CHOOSE a \in {aftershocks[x] : x \in 1..Len(aftershocks)} :
                 a.usgs_id = events[j].usgs_id).parent_id)

\* the Mainshocks whose window holds j
Covering(j) == {i \in (1..N) \ {j} : ~is_dependent[i] /\ Covers(i, j)}

\* those of them whose magnitude is at least j's
CoveringGE(j) ==
    {i \in Covering(j) : events[i].usgs_mag >= events[j].usgs_mag}

NearestInTime(j, S) ==
    /\ ParentOf(j) \in S
    /\ \A i \in S : AbsDt(ParentOf(j), j) <= AbsDt(i, j)

\* C8 as stated: when the windows of two or more Mainshocks hold the
\* dependent event j, its parent is the one of them nearest in time.
C8_Original ==
    (Done /\ WithParents) =>
        \A j \in 1..N :
            (is_dependent[j] /\ Cardinality(Covering(j)) >= 2) =>
                NearestInTime(j, Covering(j))

\* C8 (amended): when the windows of two or more Mainshocks of magnitude
\* >= magnitude(j) hold the dependent event j, its parent is the one of
\* them with the smallest |time(j) - time(parent)|; distance plays no role.
C8_NearestParent ==
    (Done /\ WithParents) =>
        \A j \in 1..N :
            (is_dependent[j] /\ Cardinality(CoveringGE(j)) >= 2) =>
                NearestInTime(j, CoveringGE(j))

\* the documented case: A (M7.0, t = 0), B (M6.8, t = +1000 d) and C at
\* +600 d inside both windows; C's parent is B
C8_Witness ==
    /\ Done /\ WithParents /\ N = 3
    /\ \E a, b, c \in 1..N :
          /\ events[a].usgs_mag = 70 /\ times[a] = 0
          /\ events[b].usgs_mag = 68 /\ times[b] = 1000 * SecPerDay
          /\ times[c] = 600 * SecPerDay
          /\ CoveringGE(c) = {a, b}
          /\ ParentOf(c) = b

AttrKeys == {"parent_id", "parent_magnitude", "delta_t_sec", "delta_dist_km"}

\* C9: the four attribution values of every Aftershock refer to one event,
\* the parent last assigned: delta_t_sec is the Aftershock's instant minus
\* that parent's (negative exactly when the Aftershock precedes it,
\* positive exactly when it follows), delta_dist_km is the distance between
\* the two recomputed from their coordinates, parent_magnitude is the
\* parent's magnitude.
C9_AttributionOfFinalParent ==
    (Done /\ WithParents) =>
        \A x \in 1..Len(aftershocks) :
            LET a == aftershocks[x]
                j == IndexOf(a.usgs_id)
                p == IndexOf(a.parent_id)
                tj == _parse_event_time(events[j].event_at)
                tp == _parse_event_time(events[p].event_at)
            IN  /\ p = parent_idx[j]
                /\ a.parent_magnitude = events[p].usgs_mag
                /\ a.delta_t_sec = tj - tp
                /\ (a.delta_t_sec < 0) <=> (tj < tp)
                /\ (a.delta_t_sec > 0) <=> (tj > tp)
                /\ a.delta_dist_km = Dist(j, p)

\* an Aftershock that was moved to a later candidate, which it precedes
C9_Witness ==
    /\ Done /\ WithParents
    /\ \E x \in 1..Len(aftershocks) :
          LET j == IndexOf(aftershocks[x].usgs_id)
          IN  /\ aftershocks[x].delta_t_sec < 0
              /\ aftershocks[x].delta_dist_km > 0
              /\ \E i \in CoveringGE(j) :
                    /\ i # parent_idx[j]
                    /\ MagBefore(events, i, parent_idx[j])

\* C10: every Aftershock record of decluster_with_parents carries the four
\* attribution keys; every Mainshock record is an input record as given and
\* carries none of them.
C10_AttributionKeys ==
    (Done /\ WithParents) =>
        /\ \A x \in 1..Len(aftershocks) :
              AttrKeys \subseteq DOMAIN aftershocks[x]
        /\ \A x \in 1..Len(mainshocks) :
              /\ DOMAIN mainshocks[x] \cap AttrKeys = {}
              /\ \E i \in 1..N : mainshocks[x] = events[i]

\* a run that returned one record of each class
C10_Witness ==
    /\ Done /\ WithParents /\ N = 2
    /\ Len(mainshocks) = 1 /\ Len(aftershocks) = 1


\* the identifiers of a list of records
Ids(list) == {list[x].usgs_id : x \in 1..Len(list)}

\* C11: with window_scale = 1.0, decluster_with_parents returns the same
\* set of Mainshock identifiers and the same set of Aftershock identifiers
\* as decluster_gardner_knopoff returns on the same catalog.
C11_ScaleOneMatchesCore ==
    (Done /\ WithParents /\ args.window_scale = 100) =>
        /\ Ids(mainshocks) = Ids(decluster_gardner_knopoff(events)[1])
        /\ Ids(aftershocks) = Ids(decluster_gardner_knopoff(events)[2])

\* a run at scale 1.0 in which a later candidate re-examined an event that
\* was already dependent and took it over
C11_Witness ==
    /\ Done /\ WithParents /\ args.window_scale = 100 /\ N = 3
    /\ Len(mainshocks) = 2
    /\ \E j \in 1..N :
          /\ is_dependent[j]
          /\ parent_idx[j] = order[2]
          /\ Covers(order[1], j)
          /\ events[order[1]].usgs_mag >= events[j].usgs_mag


Reasenberg == engine = "decluster_reasenberg"

\* the members of a cluster whose records were returned as Mainshocks
MainshocksOfCluster(c) ==
    {si \in c.members : sorted_evts[si].usgs_id \in Ids(mainshocks)}

\* C12: in every cluster of decluster_reasenberg that ends with more than one
\* member, exactly one member is returned as a Mainshock, no member has a
\* larger magnitude than it, and every other member is returned as an
\* Aftershock, whatever the order in which the members arrived.
C12_ClusterMainshockIsLargest ==
    (Done /\ Reasenberg) =>
        \A ci \in 1..Len(clusters) :
            LET c == clusters[ci]
            IN  Cardinality(c.members) > 1 =>
                    /\ Cardinality(MainshocksOfCluster(c)) = 1
                    /\ \A m \in MainshocksOfCluster(c) : \A si \in c.members :
                          /\ sorted_evts[m].usgs_mag >= sorted_evts[si].usgs_mag
                          /\ si # m =>
                                sorted_evts[si].usgs_id \in Ids(aftershocks)

\* a cluster of three whose largest member arrived second, after a smaller
\* member and before another
C12_Witness ==
    /\ Done /\ Reasenberg /\ Len(clusters) = 1
    /\ clusters[1].members = {1, 2, 3}
    /\ MainshocksOfCluster(clusters[1]) = {2}
    /\ sorted_evts[1].usgs_mag < sorted_evts[2].usgs_mag
    /\ sorted_evts[3].usgs_mag < sorted_evts[2].usgs_mag


\* C13 as stated: decluster_reasenberg processes the events in ascending
\* order of the instants their event_at values denote, catalog order
\* breaking ties, so the elapsed time from the last member of any cluster to
\* the event being processed is never negative.
C13_ChronologicalOrder ==
    (Reasenberg /\ pc = "scan") =>
        /\ \A r, q \in 1..N :
              r < q =>
                  \/ times[r] < times[q]
                  \/ times[r] = times[q] /\ order[r] < order[q]
        /\ k <= N =>
              \A ci \in 1..Len(clusters) :
                  times[k] - times[clusters[ci].last_si] >= 0


\* every record of list carries all keys of the record of evs with its
\* identifier, with the same values
KeepsInput(list, evs) ==
    \A x \in 1..Len(list) :
        \E i \in 1..Len(evs) :
            /\ evs[i].usgs_id = list[x].usgs_id
            /\ DOMAIN evs[i] \subseteq DOMAIN list[x]
            /\ \A key \in DOMAIN evs[i] : list[x][key] = evs[i][key]

\* C14: no step of any engine changes the caller's catalog (length, order,
\* keys and values of every record), and at the return every returned
\* record carries all keys and values of its input record, the pass-through
\* attribute included; the four keys of decluster_with_parents are on the
\* returned records only.
C14_CatalogAndRecordsKept ==
    [][/\ events' = events
       /\ pc' = "done" =>
             /\ KeepsInput(mainshocks', events)
             /\ KeepsInput(aftershocks', events)
             /\ \A i \in 1..N : DOMAIN events'[i] \cap AttrKeys = {}]_vars

\* decluster_with_parents has returned an Aftershock with its four keys and
\* the pass-through attribute of its input record
C14_Witness ==
    /\ Done /\ WithParents /\ N = 3 /\ Len(aftershocks) = 2
    /\ AttrKeys \subseteq DOMAIN aftershocks[1]
    /\ \E i \in 1..N :
          /\ events[i].usgs_id = aftershocks[1].usgs_id
          /\ aftershocks[1].depth = events[i].depth


\* the records of a returned list follow each other as in the catalog
InCatalogOrder(list) ==
    \A x, y \in 1..Len(list) :
        x < y => IndexOf(list[x].usgs_id) < IndexOf(list[y].usgs_id)

\* C15: every Gardner-Knopoff entry point returns as Mainshocks exactly the
\* events whose flag was never set and as Aftershocks exactly the others,
\* each list in catalog order.
C15_ListsInCatalogOrder ==
    (Done /\ engine \in GKEngines /\ N > 0) =>
        /\ Ids(mainshocks) = {events[i].usgs_id : i \in {j \in 1..N : ~is_dependent[j]}}
        /\ Ids(aftershocks) = {events[i].usgs_id : i \in {j \in 1..N : is_dependent[j]}}
        /\ InCatalogOrder(mainshocks)
        /\ InCatalogOrder(aftershocks)

\* two Mainshocks returned in catalog order although the outer loop took
\* the second before the first
C15_Witness ==
    /\ Done /\ engine \in GKEngines /\ N = 3
    /\ Len(mainshocks) = 2 /\ Len(aftershocks) = 1
    /\ mainshocks[1].usgs_mag < mainshocks[2].usgs_mag
    /\ IndexOf(mainshocks[1].usgs_id) < IndexOf(mainshocks[2].usgs_id)


\* decluster_reasenberg is about to process the event at rank k
Processing == Reasenberg /\ pc = "scan" /\ k <= N

\* days (in seconds) from the last member of cluster ci to the event at
\* rank k
Elapsed(ci) == times[k] - times[clusters[ci].last_si]

\* the lookback window of cluster ci at its current maximum magnitude
TauOf(ci) ==
    _tau(clusters[ci].mmax, args.xmeff, args.p, args.tau_min,
         args.tau_max).value

\* the event at rank k lies within the interaction radius of cluster ci
InReach(ci) ==
    haversine_km(sorted_evts[k].latitude, sorted_evts[k].longitude,
                 sorted_evts[clusters[ci].main_si].latitude,
                 sorted_evts[clusters[ci].main_si].longitude)
        <= _r_int(clusters[ci].mmax, args.rfact)

\* the step admits the event at rank k to cluster ci
Joins(ci) == clusters'[ci].members = clusters[ci].members \cup {k}

Eligible == {ci \in 1..Len(clusters) : Elapsed(ci) <= TauOf(ci) /\ InReach(ci)}

\* C17: each processed event ends up in exactly one cluster.  When some
\* cluster is eligible it joins one of them with the smallest elapsed time
\* and all the other clusters stay as they were; if and only if none is
\* eligible, a new cluster is appended whose only member, mainshock
\* candidate and last member is the event.
C17_JoinsNearestOrStartsOwn ==
    [][Processing =>
          /\ Cardinality({ci \in 1..Len(clusters') :
                              k \in clusters'[ci].members}) = 1
          /\ Eligible # {} =>
                /\ Len(clusters') = Len(clusters)
                /\ \E ci \in Eligible :
                      /\ Joins(ci)
                      /\ clusters'[ci].last_si = k
                      /\ \A cj \in Eligible : Elapsed(ci) <= Elapsed(cj)
                      /\ \A cj \in 1..Len(clusters) :
                            cj # ci => clusters'[cj] = clusters[cj]
          /\ Eligible = {} <=>
                clusters' = Append(clusters,
                                [mmax |-> sorted_evts[k].usgs_mag,
                                 main_si |-> k, last_si |-> k,
                                 members |-> {k}])]_vars

\* the third event was within tau and within reach of two clusters and
\* joined the second, whose last member was 18 h old, not the first, whose
\* last member was 24 h old
C17_Witness ==
    /\ Reasenberg /\ pc = "scan" /\ k = 4 /\ Len(clusters) = 2
    /\ clusters[1].members = {1} /\ clusters[2].members = {2, 3}
    /\ times[3] - times[2] = 64800 /\ times[3] - times[1] = 86400
    /\ times[3] - times[1]
           <= _tau(sorted_evts[1].usgs_mag, args.xmeff, args.p,
                   args.tau_min, args.tau_max).value
    /\ haversine_km(sorted_evts[3].latitude, sorted_evts[3].longitude,
                    sorted_evts[1].latitude, sorted_evts[1].longitude)
           <= _r_int(sorted_evts[1].usgs_mag, args.rfact)


\* C18 as stated: for tau_min <= tau_max and 0 <= p < 1, _tau always
\* returns a value within [tau_min, tau_max], and when the exponent
\* b * (m_max - xmeff) exceeds 300 it returns tau_min, raising no error.
C18_TauWithinBounds ==
    (Done /\ engine = "_tau" /\ args.tau_min <= args.tau_max) =>
        /\ "value" \in DOMAIN ret
        /\ args.tau_min <= ret.value /\ ret.value <= args.tau_max
        /\ (args.mmax - args.xmeff > 3000) => ret.value = args.tau_min

\* the thresholds of the table that do not exceed the magnitude m
RowsUpTo(m) == {r \in 1..Len(_GK_TABLE) : _GK_TABLE[r][1] <= m}

\* C19: gk_window_table has the ten thresholds 7.0, 6.5, ..., 2.5 and
\* returns the (radius, time) of the highest threshold that does not exceed
\* the magnitude, a magnitude on a threshold taking that threshold's row;
\* a magnitude below 2.5 gets the 2.5 row, (19.5 km, 22 days).
C19_TableRow ==
    (Done /\ engine = "gk_window_table") =>
        LET m == args.magnitude
        IN  /\ {_GK_TABLE[r][1] : r \in 1..Len(_GK_TABLE)}
                   = {25, 30, 35, 40, 45, 50, 55, 60, 65, 70}
            /\ RowsUpTo(m) # {} =>
                  \E r \in RowsUpTo(m) :
                      /\ \A q \in RowsUpTo(m) :
                            _GK_TABLE[q][1] <= _GK_TABLE[r][1]
                      /\ ret.value = <<_GK_TABLE[r][2], _GK_TABLE[r][3]>>
            /\ RowsUpTo(m) = {} => ret.value = <<19500, 22000>>

\* a magnitude exactly on the 6.5 threshold got the 6.5 row
C19_Witness ==
    /\ Done /\ engine = "gk_window_table" /\ args.magnitude = 65
    /\ ret.value = <<61000, 960000>>


\* C20: in every Gardner-Knopoff entry point no step clears a dependent
\* flag, and the pass of a candidate that is dependent when its turn comes
\* changes neither a flag nor a parent: it marks no other event.
C20_DependentIsFinal ==
    [][(engine \in GKEngines /\ pc = "scan") =>
          /\ \A j \in 1..N : is_dependent[j] => is_dependent'[j]
          /\ (k <= N /\ is_dependent[order[k]]) =>
                /\ is_dependent' = is_dependent
                /\ parent_idx' = parent_idx
                /\ parent_dt_abs' = parent_dt_abs]_vars

\* no chaining: the dependent event a has the smaller event b inside its
\* window, no Mainshock of magnitude >= b's has, and b is returned as a
\* Mainshock
C20_Witness ==
    /\ Done /\ WithParents /\ N = 3
    /\ \E a, b \in 1..N :
          /\ is_dependent[a] /\ ~is_dependent[b]
          /\ events[b].usgs_mag < events[a].usgs_mag
          /\ Covers(a, b)
          /\ CoveringGE(b) = {}
          /\ parent_idx[a] # None


\* decluster_with_parents is about to run the pass of the candidate at rank k
ParentsPassing == WithParents /\ pc = "scan" /\ k <= N

\* the rank at which event i is processed
RankOf(i) == CHOOSE r \in 1..N : order[r] = i

\* C21: in decluster_with_parents a dependent event j moves to a
\* later-processed candidate only if that candidate's |dt| to j is strictly
\* smaller than the recorded one; on equal |dt| the earlier-processed parent
\* is kept; the recorded |dt| of j never increases.
C21_ReassignOnlyWhenNearer ==
    [][ParentsPassing =>
          \A j \in 1..N :
              /\ parent_dt_abs'[j] <= parent_dt_abs[j]
              /\ (is_dependent[j] /\ parent_idx'[j] # parent_idx[j]) =>
                    /\ parent_idx'[j] = order[k]
                    /\ AbsDt(order[k], j) < parent_dt_abs[j]
                    /\ parent_dt_abs'[j] = AbsDt(order[k], j)
              /\ (is_dependent[j] /\ AbsDt(order[k], j) = parent_dt_abs[j]) =>
                    parent_idx'[j] = parent_idx[j]]_vars

\* two Mainshocks hold j in their windows at the same |dt| (600 d before
\* and 600 d after) and j kept the one processed first
C21_Witness ==
    /\ WithParents /\ pc = "scan" /\ k > N
    /\ \E j, i \in 1..N :
          /\ is_dependent[j] /\ i \in CoveringGE(j)
          /\ i # parent_idx[j]
          /\ AbsDt(i, j) = parent_dt_abs[j]
          /\ parent_dt_abs[j] = 600 * SecPerDay
          /\ RankOf(parent_idx[j]) < RankOf(i)


\* C22: after every admission of decluster_reasenberg each cluster's m_max
\* is the largest magnitude among its members; its mainshock candidate is a
\* member of that magnitude, the earliest admitted of those that share it
\* (a later member replaces it only by a strictly larger magnitude); and its
\* last-member index is the member admitted last.
C22_ClusterRecordTracksMembers ==
    (Reasenberg /\ pc \in {"scan", "done"}) =>
        \A ci \in 1..Len(clusters) :
            LET c == clusters[ci]
            IN  /\ c.main_si \in c.members /\ c.last_si \in c.members
                /\ sorted_evts[c.main_si].usgs_mag = c.mmax
                /\ \A si \in c.members :
                      /\ sorted_evts[si].usgs_mag <= c.mmax
                      /\ sorted_evts[si].usgs_mag = c.mmax => c.main_si <= si
                      /\ si <= c.last_si

\* a cluster of three: the second member ties with the first, which stays
\* the candidate, and the third, smaller, is the last member
C22_Witness ==
    /\ Reasenberg /\ pc = "scan" /\ k = 4 /\ Len(clusters) = 1
    /\ clusters[1].members = {1, 2, 3}
    /\ sorted_evts[2].usgs_mag = sorted_evts[1].usgs_mag
    /\ sorted_evts[3].usgs_mag < sorted_evts[1].usgs_mag
    /\ clusters[1].main_si = 1 /\ clusters[1].last_si = 3


\* the distance between the events at ranks a and b of the sorted catalog
DistSorted(a, b) ==
    haversine_km(sorted_evts[a].latitude, sorted_evts[a].longitude,
                 sorted_evts[b].latitude, sorted_evts[b].longitude)

\* C23: an event joins a cluster only if its distance to the cluster's
\* current mainshock candidate is at most r_int of the cluster's m_max
\* (the bound itself admits); an event farther than that from the candidate
\* leaves the cluster as it was, however close it is to other members.
C23_ReachFromCandidate ==
    [][Processing =>
          \A ci \in 1..Len(clusters) :
              /\ Joins(ci) =>
                    DistSorted(k, clusters[ci].main_si)
                        <= _r_int(clusters[ci].mmax, args.rfact)
              /\ DistSorted(k, clusters[ci].main_si)
                     > _r_int(clusters[ci].mmax, args.rfact)
                    => clusters'[ci] = clusters[ci]]_vars

\* the third event came within tau of the first cluster's last member and
\* lies 11 km from it, but 61 km from the candidate, beyond the radius: it
\* started its own cluster
C23_Witness ==
    /\ Reasenberg /\ pc = "scan" /\ k = 4 /\ Len(clusters) = 2
    /\ clusters[1].members = {1, 2} /\ clusters[1].main_si = 1
    /\ clusters[2].members = {3}
    /\ times[3] - times[2]
           <= _tau(clusters[1].mmax, args.xmeff, args.p, args.tau_min,
                   args.tau_max).value
    /\ DistSorted(3, 1) > _r_int(clusters[1].mmax, args.rfact)
    /\ DistSorted(3, 2) <= _r_int(clusters[1].mmax, args.rfact)


\* the members of cluster c admitted before the member at rank si
EarlierMembers(c, si) == {t \in c.members : t < si}

\* the seconds from the cluster's last member to the member at rank si, at
\* the time si was admitted
ElapsedAtAdmission(c, si) ==
    times[si] - times[CHOOSE t \in EarlierMembers(c, si) :
                          \A u \in EarlierMembers(c, si) : u <= t]

\* tau at the maximum magnitude the cluster had when si was admitted
TauAtAdmission(c, si) ==
    LET m == CHOOSE t \in EarlierMembers(c, si) :
                 \A u \in EarlierMembers(c, si) :
                     sorted_evts[u].usgs_mag <= sorted_evts[t].usgs_mag
    IN  _tau(sorted_evts[m].usgs_mag, args.xmeff, args.p, args.tau_min,
             args.tau_max).value

\* the members of cluster c that joined it (all but its first member)
Joined(c) == {si \in c.members : EarlierMembers(c, si) # {}}

C25_ClustersOnlyGrow ==
    /\ [](Reasenberg /\ pc \in {"scan", "done"} =>
            /\ \A ci, cj \in 1..Len(clusters) :
                  ci # cj => clusters[ci].members \cap clusters[cj].members = {}
            /\ \A si \in 1..(k - 1) :
                  Cardinality({ci \in 1..Len(clusters) :
                                   si \in clusters[ci].members}) = 1
            /\ \A ci \in 1..Len(clusters) :
                  clusters[ci].members \subseteq 1..(k - 1)
            /\ Done => Len(mainshocks) = Len(clusters))
    /\ [][Processing =>
            /\ Len(clusters') >= Len(clusters)
            /\ \A ci \in 1..Len(clusters) :
                  clusters[ci].members \subseteq clusters'[ci].members]_vars

\* a run of three events that ended with a cluster of two members and a
\* singleton cluster, and returned two Mainshocks
C25_Witness ==
    /\ Done /\ Reasenberg /\ N = 3 /\ Len(clusters) = 2
    /\ \E ci \in 1..2 : Cardinality(clusters[ci].members) = 2
    /\ Len(mainshocks) = 2 /\ Len(aftershocks) = 1


\* the final Mainshocks other than j, of magnitude >= magnitude(j), whose
\* own window holds j
MainshocksCovering(j) ==
    {i \in (1..N) \ {j} :
        /\ events[i].usgs_id \in Ids(mainshocks)
        /\ events[i].usgs_mag >= events[j].usgs_mag
        /\ Covers(i, j)}

\* C26: the final Gardner-Knopoff classification is determined by the final
\* Mainshocks alone: an event is returned as an Aftershock if and only if
\* some final Mainshock other than it has magnitude >= its magnitude and
\* holds it in its own window; so no Mainshock lies inside the window of
\* another Mainshock of greater or equal magnitude.
C26_AftershockIffCoveredByMainshock ==
    (Done /\ engine \in GKEngines) =>
        \A j \in 1..N :
            /\ events[j].usgs_id \in Ids(aftershocks)
                   <=> MainshocksCovering(j) # {}
            /\ events[j].usgs_id \in Ids(mainshocks)
                   => MainshocksCovering(j) = {}

\* an Aftershock held by a Mainshock's window, and a Mainshock that lies
\* inside the window of that larger Aftershock only
C26_Witness ==
    /\ Done /\ engine \in GKEngines /\ N = 3
    /\ \E a, m \in 1..N :
          /\ events[a].usgs_id \in Ids(aftershocks)
          /\ MainshocksCovering(a) # {}
          /\ events[m].usgs_id \in Ids(mainshocks)
          /\ events[a].usgs_mag >= events[m].usgs_mag
          /\ Covers(a, m)


\* the event of maximum magnitude that comes first in catalog order
FirstMaximum ==
    CHOOSE i \in 1..N :
        \A j \in 1..N :
            \/ events[j].usgs_mag < events[i].usgs_mag
            \/ events[j].usgs_mag = events[i].usgs_mag /\ i <= j

\* C27: for a non-empty catalog every Gardner-Knopoff variant returns the
\* first event of maximum magnitude as a Mainshock, so its Mainshocks are
\* never empty; decluster_reasenberg returns at least one Mainshock too.
C27_MainshocksNeverEmpty ==
    (Done /\ N > 0) =>
        /\ Len(mainshocks) >= 1
        /\ engine \in GKEngines =>
              events[FirstMaximum].usgs_id \in Ids(mainshocks)

\* a run of decluster_with_parents on three events of one magnitude, the
\* first of which is the only Mainshock
C27_Witness ==
    /\ Done /\ WithParents /\ N = 3
    /\ events[1].usgs_mag = events[2].usgs_mag
    /\ events[2].usgs_mag = events[3].usgs_mag
    /\ Ids(mainshocks) = {events[1].usgs_id}


\* the scaled window of a parent of magnitude m under the running
\* window_scale: <<radius in metres, time in seconds>>
ScaledWindowOf(m) ==
    LET w == gk_window_scaled(m, args.window_scale)
    IN  <<w[1], time_window_secs(w[2])>>

\* C28: every Aftershock returned by decluster_with_parents has
\* parent_magnitude >= its own magnitude, |delta_t_sec| at most the time
\* window and delta_dist_km at most the radius of
\* gk_window_scaled(parent_magnitude, window_scale), and is not its own
\* parent.
C28_AttributionInsideParentWindow ==
    (Done /\ WithParents) =>
        \A x \in 1..Len(aftershocks) :
            LET a == aftershocks[x]
            IN  /\ a.parent_magnitude >= a.usgs_mag
                /\ Abs(a.delta_t_sec) <= ScaledWindowOf(a.parent_magnitude)[2]
                /\ a.delta_dist_km <= ScaledWindowOf(a.parent_magnitude)[1]
                /\ a.parent_id # a.usgs_id

\* an Aftershock that lies inside the window of a smaller Mainshock nearer
\* in time than its parent, and stayed with the larger parent
C28_Witness ==
    /\ Done /\ WithParents
    /\ \E x \in 1..Len(aftershocks) :
          LET a == aftershocks[x]
              j == IndexOf(a.usgs_id)
          IN  /\ a.parent_magnitude > a.usgs_mag
              /\ a.delta_dist_km > 0
              /\ \E c \in Covering(j) :
                    /\ events[c].usgs_mag < a.usgs_mag
                    /\ AbsDt(c, j) < Abs(a.delta_t_sec)


\* C29 as stated: closure is permanent in decluster_reasenberg: a cluster
\* found closed for the processed event (the time elapsed since its last
\* member exceeds tau(m_max)) is closed for the event processed next as
\* well, and the step leaves its m_max, mainshock candidate, last member
\* and members as they were; so it is closed for every later event.
C29_ClosurePermanent ==
    [][(Processing /\ k < N) =>
          \A ci \in 1..Len(clusters) :
              Elapsed(ci) > TauOf(ci) =>
                  /\ clusters'[ci] = clusters[ci]
                  /\ times[k + 1] - times[clusters[ci].last_si]
                         > TauOf(ci)]_vars


\* what the running Gardner-Knopoff entry point returns on the catalog evs
ResultOn(evs) ==
    IF WithParents THEN decluster_with_parents(evs, args.window_scale)
    ELSE _gk_decluster_core(evs, engine, args)

\* the catalog with its records rearranged by the permutation pi
Permuted(pi) == [r \in 1..N |-> events[pi[r]]]

\* the pairs <<identifier, parent_id>> of a list of attributed Aftershocks
Parents(list) ==
    {<<list[x].usgs_id, list[x].parent_id>> : x \in 1..Len(list)}

DistinctMagnitudes ==
    \A i, j \in 1..N : i # j => events[i].usgs_mag # events[j].usgs_mag

\* C30: for a catalog of pairwise distinct magnitudes the result of every
\* Gardner-Knopoff entry point is the same for every rearrangement of the
\* catalog: the same Mainshock identifiers, the same Aftershock
\* identifiers and, for decluster_with_parents, the same parent_id for each
\* Aftershock.
C30_OrderIndependent ==
    (Done /\ engine \in GKEngines /\ DistinctMagnitudes) =>
        \A pi \in Permutations(1..N) :
            LET res == ResultOn(Permuted(pi))
            IN  /\ Ids(res[1]) = Ids(mainshocks)
                /\ Ids(res[2]) = Ids(aftershocks)
                /\ WithParents => Parents(res[2]) = Parents(aftershocks)

\* a catalog of three distinct magnitudes given smallest first, in which
\* the second largest event is an Aftershock of the largest and the
\* smallest, inside the window of the second largest only, is a Mainshock
C30_Witness ==
    /\ Done /\ engine \in GKEngines /\ N = 3 /\ DistinctMagnitudes
    /\ events[1].usgs_mag < events[2].usgs_mag
    /\ events[2].usgs_mag < events[3].usgs_mag
    /\ Ids(aftershocks) = {events[2].usgs_id}
    /\ Covers(2, 1)

====
